---- MODULE Spec2Model ----
(***************************************************************************)
(* s3direct/utils.py: credential resolution (get_aws_credentials), live    *)
(* destination lookup (get_s3direct_destinations), object-key building     *)
(* (get_key), presigned-URL issuing (get_presigned_url) and the AWS        *)
(* Signature V4 signing-key derivation (get_aws_v4_signing_key).           *)
(*                                                                         *)
(* Python scalars handled by the settings code are TLA+ strings.  Two      *)
(* reserved strings stand for values that are not strings: None (Python's  *)
(* None) and Absent (the attribute or dict key does not exist).            *)
(***************************************************************************)
EXTENDS Integers, Sequences, FiniteSets, TLC

VARIABLES
    settings,       \* django.conf.settings: setting name -> value or Absent
    destinations,   \* the S3DIRECT_DESTINATIONS setting (mutable at runtime)
    SESSION,        \* module-level botocore session, bound once at import
    session_creds,  \* what SESSION.get_credentials() does when asked now
    lastOp,         \* the operation performed by the last step
    credOut,        \* outcome of the last get_aws_credentials() call
    credPrev,       \* outcome of the get_aws_credentials() call before it
    destOut,        \* value returned by the last get_s3direct_destinations()
    presignOut,     \* outcome of the last get_presigned_url() call
    keyIn,          \* arguments of the last get_key() call
    keyOut,         \* outcome of the last get_key() call
    signPrev,       \* the get_aws_v4_signing_key() call before the last one
    signLast        \* the last get_aws_v4_signing_key() call

vars == <<settings, destinations, SESSION, session_creds, lastOp, credOut,
          credPrev, destOut, presignOut, keyIn, keyOut, signPrev, signLast>>

configVars  == <<settings, destinations, SESSION, session_creds, lastOp, credOut,
                 credPrev, destOut>>
presignVars == <<presignOut>>
keyVars     == <<keyIn, keyOut>>
signVars    == <<signPrev, signLast>>

(***************************************************************************)
(* Bounds of the model.                                                    *)
(***************************************************************************)
NumKeys == 2        \* distinct static key values a setting can take
NumDests == 1       \* destination identifiers the configuration can hold
MaxLen == 3         \* longest key-strategy string
MaxNameLen == 2     \* longest file name
NumSecrets == 2     \* distinct secret keys handed to the signing-key derivation

(***************************************************************************)
(* Python values.                                                          *)
(***************************************************************************)
None == "<None>"
Absent == "<absent>"

\* bool(v) for the scalar values the settings hold: None and "" are falsy.
Truthy(v) == v # None /\ v # ""

\* getattr(settings, name, None)
getattr_settings(name) == IF settings[name] = Absent THEN None ELSE settings[name]

\* d.get(k, default) on a destination record: the default only when k is missing.
dict_get(d, k, default) == IF d[k] = Absent THEN default ELSE d[k]

CredSettingNames == {"AWS_ACCESS_KEY_ID", "AWS_SECRET_ACCESS_KEY"}
PrimaryLocNames == {"AWS_S3_REGION_NAME", "AWS_S3_ENDPOINT_URL"}
OriginalLocNames == {"ORIGINAL_AWS_S3_REGION_NAME", "ORIGINAL_AWS_S3_ENDPOINT_URL"}
OriginalKeyNames == {"ORIGINAL_AWS_ACCESS_KEY_ID", "ORIGINAL_SECRET_ACCESS_KEY"}
BucketNames == {"AWS_STORAGE_BUCKET_NAME"}
SettingNames == CredSettingNames \cup PrimaryLocNames \cup OriginalLocNames
                    \cup OriginalKeyNames \cup BucketNames

\* The values a key setting can hold: missing, empty, or one of NumKeys keys.
\* A value carries its setting's name, so that its origin shows in a result.
KeyValues(name) == {Absent, ""} \cup {name \o "#" \o ToString(i) : i \in 1..NumKeys}
\* A region, endpoint or bucket setting is missing or set.
LocValues(name) == {Absent, name \o "#1"}

SettingValues(name) ==
    IF name \in CredSettingNames \cup OriginalKeyNames THEN KeyValues(name)
    ELSE LocValues(name)

UnsetSettings == [n \in SettingNames |-> Absent]

(***************************************************************************)
(* Destinations: S3DIRECT_DESTINATIONS maps identifiers to records.        *)
(***************************************************************************)
DestIds == {"dest" \o ToString(i) : i \in 1..NumDests}
\* An identifier no configuration holds is always available to a caller.
RequestIds == DestIds \cup {"missing"}

DestRecords ==
    [bucket : {Absent, "dest-bucket"},
     region : {Absent, None, "dest-region"},
     endpoint : {Absent, "dest-endpoint"}]

\* set = FALSE: the setting does not exist; otherwise map is the dict.
DestinationSettings ==
    {[set |-> FALSE, map |-> <<>>]} \cup
    {[set |-> TRUE, map |-> m] : m \in UNION {[D -> DestRecords] : D \in SUBSET DestIds}}

NoDestinations == [set |-> FALSE, map |-> <<>>]

\* get_s3direct_destinations(): the live setting, None when it is missing.
get_s3direct_destinations == destinations

(***************************************************************************)
(* The ambient session.                                                    *)
(***************************************************************************)
\* SESSION.get_credentials(): None, a credentials object, or an exception of
\* the session's own (botocore raises on partial or unreadable configuration).
SessionCredStates ==
    {[kind |-> "none", token |-> None, secret_key |-> None, access_key |-> None],
     [kind |-> "raises", token |-> None, secret_key |-> None, access_key |-> None]} \cup
    [kind : {"creds"}, token : {None, "session-token"},
     secret_key : {"session-secret"}, access_key : {"session-access"}]

AWSCredentials(token, secret_key, access_key) ==
    [token |-> token, secret_key |-> secret_key, access_key |-> access_key]

Returned(value, queried) == [kind |-> "return", value |-> value, queried |-> queried]
Raised(queried) ==
    [kind |-> "raise", value |-> AWSCredentials(None, None, None), queried |-> queried]
NoCredCall ==
    [kind |-> "nocall", value |-> AWSCredentials(None, None, None), queried |-> FALSE]

\* A memoising resolver: once a value was returned, it is returned again.
get_aws_credentials_memo ==
    IF credOut.kind = "return" THEN credOut
    ELSE Returned(AWSCredentials(None, None, None), FALSE)

\* The static branch taken as soon as one of the two keys is set.
get_aws_credentials_either ==
    LET access_key == getattr_settings("AWS_ACCESS_KEY_ID")
        secret_key == getattr_settings("AWS_SECRET_ACCESS_KEY")
    IN  IF Truthy(access_key) \/ Truthy(secret_key)
        THEN Returned(AWSCredentials(None, secret_key, access_key), FALSE)
        ELSE Returned(AWSCredentials(None, None, None), FALSE)

\* The session consulted before the static keys.
get_aws_credentials_session_first ==
    LET access_key == getattr_settings("AWS_ACCESS_KEY_ID")
        secret_key == getattr_settings("AWS_SECRET_ACCESS_KEY")
    IN  IF SESSION # None /\ session_creds.kind = "creds"
        THEN Returned(AWSCredentials(session_creds.token, session_creds.secret_key,
                                     session_creds.access_key), TRUE)
        ELSE IF Truthy(access_key) /\ Truthy(secret_key)
        THEN Returned(AWSCredentials(None, secret_key, access_key), FALSE)
        ELSE Returned(AWSCredentials(None, None, None), SESSION # None)

\* A missing session reported as an error.
get_aws_credentials_strict ==
    LET access_key == getattr_settings("AWS_ACCESS_KEY_ID")
        secret_key == getattr_settings("AWS_SECRET_ACCESS_KEY")
    IN  IF Truthy(access_key) /\ Truthy(secret_key)
        THEN Returned(AWSCredentials(None, secret_key, access_key), FALSE)
        ELSE IF SESSION = None THEN Raised(FALSE)
        ELSE IF session_creds.kind = "creds"
        THEN Returned(AWSCredentials(session_creds.token, session_creds.secret_key,
                                     session_creds.access_key), TRUE)
        ELSE Raised(TRUE)

\* get_aws_credentials(): the outcome of a call made in the current state.
get_aws_credentials ==
    LET access_key == getattr_settings("AWS_ACCESS_KEY_ID")
        secret_key == getattr_settings("AWS_SECRET_ACCESS_KEY")
    IN  IF Truthy(access_key) /\ Truthy(secret_key)
        THEN Returned(AWSCredentials(None, secret_key, access_key), FALSE)
        ELSE IF SESSION = None
        THEN Returned(AWSCredentials(None, None, None), FALSE)
        ELSE IF session_creds.kind = "raises" THEN Raised(TRUE)
        ELSE IF session_creds.kind = "creds"
        THEN Returned(AWSCredentials(session_creds.token, session_creds.secret_key,
                                     session_creds.access_key), TRUE)
        ELSE Returned(AWSCredentials(None, None, None), TRUE)

(***************************************************************************)
(* Configuration and credential resolution as a state machine: settings,   *)
(* destinations and the session's answer change at runtime, and the two    *)
(* read operations are called in between.                                  *)
(***************************************************************************)
\* The destination record the runtime-change scenario installs.
PlainDest == [bucket |-> "dest-bucket", region |-> Absent, endpoint |-> Absent]
PlainDestinationSettings ==
    {NoDestinations} \cup
    {[set |-> TRUE, map |-> [d \in D |-> PlainDest]] : D \in SUBSET {"dest1"}}

NoDestCall == [called |-> FALSE, value |-> NoDestinations]
NoPresignCall ==
    [kind |-> "nocall", error |-> "", dest |-> "", is_oracle |-> FALSE,
     client |-> FALSE, endpoint_url |-> Absent, region_name |-> Absent,
     signature_version |-> Absent,
     aws_access_key_id |-> Absent, aws_secret_access_key |-> Absent,
     presigned |-> FALSE, method_name |-> Absent, Bucket |-> Absent, Key |-> Absent,
     ExpiresIn |-> 0]
NoKeyIn == [key |-> [type |-> "NoneType", val |-> ""], file_name |-> "",
            key_args |-> [type |-> "<absent>", val |-> ""]]
NoKeyCall == [kind |-> "nocall", error |-> "", object_key |-> "", calls |-> <<>>]
NoSignCall == [called |-> FALSE, key |-> "", signing_date |-> <<0, 0, 0>>, region |-> "",
               service |-> "", k_signing |-> <<>>]

ConfigIdle ==
    /\ SESSION = "session"
    /\ session_creds \in {c \in SessionCredStates : c.kind = "none"}
    /\ lastOp = "import"
    /\ credOut = NoCredCall
    /\ credPrev = NoCredCall
    /\ destOut = NoDestCall
PresignIdle == presignOut = NoPresignCall
KeyIdle == keyIn = NoKeyIn /\ keyOut = NoKeyCall
SignIdle == signPrev = NoSignCall /\ signLast = NoSignCall

\* Import of the module: SESSION is bound to the botocore session; no call yet.
ConfigInit ==
    /\ settings \in {[UnsetSettings EXCEPT !["AWS_ACCESS_KEY_ID"] = a,
                                           !["AWS_SECRET_ACCESS_KEY"] = k] :
                        a \in KeyValues("AWS_ACCESS_KEY_ID"),
                        k \in KeyValues("AWS_SECRET_ACCESS_KEY")}
    /\ destinations \in PlainDestinationSettings
    /\ SESSION = "session"
    /\ session_creds \in SessionCredStates
    /\ lastOp = "import"
    /\ credOut = NoCredCall
    /\ credPrev = NoCredCall
    /\ destOut = NoDestCall
    /\ PresignIdle /\ KeyIdle /\ SignIdle

\* settings.<name> = v, or del settings.<name> (v = Absent), at runtime.
SetSetting(name, v) ==
    /\ settings[name] # v
    /\ settings' = [settings EXCEPT ![name] = v]
    /\ lastOp' = "set"
    /\ UNCHANGED <<destinations, SESSION, session_creds, credOut, credPrev, destOut>>
    /\ UNCHANGED <<presignVars, keyVars, signVars>>

\* settings.S3DIRECT_DESTINATIONS replaced at runtime.
SetDestinations(d) ==
    /\ destinations # d
    /\ destinations' = d
    /\ lastOp' = "set"
    /\ UNCHANGED <<settings, SESSION, session_creds, credOut, credPrev, destOut>>
    /\ UNCHANGED <<presignVars, keyVars, signVars>>

\* The environment of the session changes what get_credentials() finds.
SessionChange(c) ==
    /\ session_creds # c
    /\ session_creds' = c
    /\ lastOp' = "session"
    /\ UNCHANGED <<settings, destinations, SESSION, credOut, credPrev, destOut>>
    /\ UNCHANGED <<presignVars, keyVars, signVars>>

CallGetAwsCredentials ==
    /\ credOut' = get_aws_credentials
    /\ credPrev' = credOut
    /\ lastOp' = "get_aws_credentials"
    /\ UNCHANGED <<settings, destinations, SESSION, session_creds, destOut>>
    /\ UNCHANGED <<presignVars, keyVars, signVars>>

CallGetDestinations ==
    /\ destOut' = [called |-> TRUE, value |-> get_s3direct_destinations]
    /\ lastOp' = "get_s3direct_destinations"
    /\ UNCHANGED <<settings, destinations, SESSION, session_creds, credOut, credPrev>>
    /\ UNCHANGED <<presignVars, keyVars, signVars>>

ConfigNext ==
    \/ \E n \in CredSettingNames : \E v \in SettingValues(n) : SetSetting(n, v)
    \/ \E d \in PlainDestinationSettings : SetDestinations(d)
    \/ \E c \in SessionCredStates : SessionChange(c)
    \/ CallGetAwsCredentials
    \/ CallGetDestinations

ConfigSpec == ConfigInit /\ [][ConfigNext]_vars

(***************************************************************************)
(* Properties of credential resolution and of the live configuration.      *)
(***************************************************************************)
\* Both static settings exist and are non-empty in the current state.
StaticConfigured ==
    /\ settings["AWS_ACCESS_KEY_ID"] \notin {Absent, None, ""}
    /\ settings["AWS_SECRET_ACCESS_KEY"] \notin {Absent, None, ""}

\* The last step was a get_aws_credentials() call: credOut answers this state.
JustResolved == lastOp = "get_aws_credentials"

Anonymous == [token |-> None, secret_key |-> None, access_key |-> None]

\* C1: when both static keys are configured and non-empty, the call returns
\* (None, static secret, static access key) whatever the session would answer
\* (null, credentials, or an error), and the session is not consulted.
C1_StaticKeysWin ==
    (JustResolved /\ StaticConfigured) =>
        /\ credOut.kind = "return"
        /\ credOut.value = [token |-> None,
                            secret_key |-> settings["AWS_SECRET_ACCESS_KEY"],
                            access_key |-> settings["AWS_ACCESS_KEY_ID"]]
        /\ credOut.queried = FALSE

\* C1 witness: static keys returned while the session holds credentials too.
C1_Witness ==
    /\ JustResolved /\ StaticConfigured
    /\ session_creds.kind = "creds"
    /\ credOut.kind = "return"
    /\ credOut.value.access_key = settings["AWS_ACCESS_KEY_ID"]

\* C2: every value returned has both secret_key and access_key present, or
\* token, secret_key and access_key all absent; one static key alone never
\* gives a result with exactly one key.
C2_CredentialsInvariant ==
    credOut.kind = "return" =>
        \/ credOut.value.secret_key # None /\ credOut.value.access_key # None
        \/ credOut.value = Anonymous

\* C2 witness: a value returned while exactly one static key is set.
C2_Witness ==
    /\ JustResolved /\ credOut.kind = "return"
    /\ settings["AWS_ACCESS_KEY_ID"] \notin {Absent, None, ""}
    /\ settings["AWS_SECRET_ACCESS_KEY"] \in {Absent, ""}

\* C3: without both static keys, and with no session or a session that
\* answers null, the call returns normally the anonymous value and raises
\* nothing.
C3_MissingCredentialsNoError ==
    (JustResolved /\ ~StaticConfigured
        /\ (SESSION = None \/ session_creds.kind = "none")) =>
        /\ credOut.kind = "return"
        /\ credOut.value = Anonymous

\* C3 witness: the anonymous value returned after the session answered null.
C3_Witness ==
    /\ JustResolved /\ ~StaticConfigured
    /\ session_creds.kind = "none"
    /\ credOut.kind = "return" /\ credOut.queried

\* What the precedence chain gives for the settings and session of one moment.
ResolvedAt(s, sess, c) ==
    IF s["AWS_ACCESS_KEY_ID"] \notin {Absent, None, ""}
        /\ s["AWS_SECRET_ACCESS_KEY"] \notin {Absent, None, ""}
    THEN [kind |-> "return", queried |-> FALSE,
          value |-> [token |-> None, secret_key |-> s["AWS_SECRET_ACCESS_KEY"],
                     access_key |-> s["AWS_ACCESS_KEY_ID"]]]
    ELSE IF sess = None THEN [kind |-> "return", queried |-> FALSE, value |-> Anonymous]
    ELSE IF c.kind = "raises" THEN [kind |-> "raise", queried |-> TRUE, value |-> Anonymous]
    ELSE [kind |-> "return", queried |-> TRUE,
          value |-> IF c.kind = "creds"
                    THEN [token |-> c.token, secret_key |-> c.secret_key,
                          access_key |-> c.access_key]
                    ELSE Anonymous]

\* C9: in every interleaving of runtime changes with calls, each
\* get_aws_credentials() call yields what the settings and the session give at
\* the moment of the call, never a value of an earlier configuration, and each
\* get_s3direct_destinations() call yields the destinations configured then.
C9_FreshOnEveryCall ==
    [][/\ lastOp' = "get_aws_credentials" =>
            credOut' = ResolvedAt(settings, SESSION, session_creds)
       /\ lastOp' = "get_s3direct_destinations" =>
            (destOut'.called /\ destOut'.value = destinations)]_vars

\* C9 witness: two calls with a change of the static keys in between; the
\* second returned the new static keys, the first something else, and the
\* destinations read earlier have been replaced since.
C9_Witness ==
    /\ JustResolved /\ StaticConfigured
    /\ credPrev.kind = "return" /\ credPrev.value # credOut.value
    /\ credPrev.value.access_key \notin {None, "session-access"}
    /\ credOut.value.access_key = settings["AWS_ACCESS_KEY_ID"]
    /\ destOut.called /\ destOut.value # destinations

(***************************************************************************)
(* get_key: the object key from a key strategy, a file name and the        *)
(* destination.  A strategy or a key_args value is a typed Python value    *)
(* [type, val]; strings are TLA+ strings.                                  *)
(***************************************************************************)
PyStr(v) == [type |-> "str", val |-> v]
PyNone == [type |-> "NoneType", val |-> ""]
PyFunction(name) == [type |-> "function", val |-> name]
\* The dict has no such key.
PyMissing == [type |-> "<absent>", val |-> ""]

\* bool(v): None, "", 0, [] and {} are falsy.
PyTruthy(v) ==
    v \notin {PyNone, PyStr(""), [type |-> "int", val |-> "0"],
              [type |-> "list", val |-> "[]"], [type |-> "dict", val |-> "{}"]}

\* hasattr(key, "__call__")
IsCallable(key) == key.type = "function"

\* All strings over the alphabet of length at most n.
RECURSIVE StringsUpTo(_, _)
StringsUpTo(alphabet, n) ==
    IF n = 0 THEN {""}
    ELSE LET shorter == StringsUpTo(alphabet, n - 1)
         IN  shorter \cup {s \o c : s \in shorter, c \in alphabet}

CharAt(s, i) == SubSeq(s, i, i)

\* s.lstrip(ch)
RECURSIVE str_lstrip(_, _)
str_lstrip(s, ch) ==
    IF Len(s) > 0 /\ CharAt(s, 1) = ch THEN str_lstrip(SubSeq(s, 2, Len(s)), ch) ELSE s

\* s.rstrip(ch)
RECURSIVE str_rstrip(_, _)
str_rstrip(s, ch) ==
    IF Len(s) > 0 /\ CharAt(s, Len(s)) = ch
    THEN str_rstrip(SubSeq(s, 1, Len(s) - 1), ch) ELSE s

\* Only the leading characters removed.
str_strip_leading(s, ch) == str_lstrip(s, ch)

\* s.strip(ch): every leading and every trailing ch removed.
str_strip(s, ch) == str_rstrip(str_lstrip(s, ch), ch)

\* The key strategies of the model: prefixes, two callables, and None.
StrategyStrings == StringsUpTo({"/", "u"}, MaxLen)
Callables == {"constant", "by_args"}
KeyStrategies ==
    {PyStr(s) : s \in StrategyStrings} \cup {PyFunction(f) : f \in Callables} \cup {PyNone}
FileNames == StringsUpTo({"/", "a"}, MaxNameLen)
KeyArgsValues ==
    {PyMissing, PyNone, PyStr(""), PyStr("x"), [type |-> "int", val |-> "0"],
     [type |-> "int", val |-> "7"], [type |-> "list", val |-> "[]"],
     [type |-> "list", val |-> "[1]"]}

\* dest.get("key_args")
dest_get_key_args(dest) == IF dest.key_args = PyMissing THEN PyNone ELSE dest.key_args

\* The positional arguments of one invocation of the callable.
OneArg(file_name) == [n |-> 1, file_name |-> file_name, key_args |-> PyMissing]
TwoArgs(file_name, args) == [n |-> 2, file_name |-> file_name, key_args |-> args]

\* key(*fn_args) for the callables of the model: "constant" ignores its
\* arguments; "by_args" names the key after what it was given.
Invoke(fn, a) ==
    IF fn = "constant" THEN "custom/a.png"
    ELSE IF a.n = 2 THEN a.key_args.type \o ":" \o a.key_args.val \o "/" \o a.file_name
    ELSE "plain/" \o a.file_name

KeyReturned(object_key, calls) ==
    [kind |-> "return", error |-> "", object_key |-> object_key, calls |-> calls]
KeyRaised(error) == [kind |-> "raise", error |-> error, object_key |-> "", calls |-> <<>>]

\* key_args appended whenever it is not None.
fn_args_not_none(file_name, dest) ==
    LET args == dest_get_key_args(dest)
    IN  IF args # PyNone THEN TwoArgs(file_name, args) ELSE OneArg(file_name)

\* The list of positional arguments get_key builds for the callable.
fn_args(file_name, dest) ==
    LET args == dest_get_key_args(dest)
    IN  IF PyTruthy(args) THEN TwoArgs(file_name, args) ELSE OneArg(file_name)

\* get_key(key, file_name, dest)
get_key(key, file_name, dest) ==
    IF IsCallable(key)
    THEN LET a == fn_args(file_name, dest)
         IN  KeyReturned(Invoke(key.val, a), <<a>>)
    ELSE IF key = PyStr("/") THEN KeyReturned(file_name, <<>>)
    ELSE IF key.type # "str" THEN KeyRaised("AttributeError")
    ELSE KeyReturned(str_strip(key.val, "/") \o "/" \o file_name, <<>>)

\* The arguments of the call are drawn; the call has not been made.
KeyInit ==
    /\ settings = UnsetSettings /\ destinations = NoDestinations
    /\ ConfigIdle /\ PresignIdle /\ SignIdle
    /\ keyIn \in [key : KeyStrategies, file_name : FileNames, key_args : KeyArgsValues]
    /\ keyOut = NoKeyCall

CallGetKey ==
    /\ keyOut.kind = "nocall"
    /\ keyOut' = get_key(keyIn.key, keyIn.file_name, [key_args |-> keyIn.key_args])
    /\ UNCHANGED <<keyIn, configVars, presignVars, signVars>>

KeyNext == CallGetKey

KeySpec == KeyInit /\ [][KeyNext]_vars

(***************************************************************************)
(* Properties of get_key.                                                  *)
(***************************************************************************)
KeyCalled == keyOut.kind # "nocall"

\* C7 as stated: with a callable strategy the callable is invoked exactly
\* once, with file_name first and key_args second whenever key_args is
\* present and not None (falsy values included), with file_name alone
\* otherwise, and its result is returned unmodified.
C7_AsStated ==
    (KeyCalled /\ keyIn.key.type = "function") =>
        /\ keyOut.kind = "return"
        /\ Len(keyOut.calls) = 1
        /\ keyOut.calls[1].file_name = keyIn.file_name
        /\ IF keyIn.key_args \notin {PyMissing, PyNone}
           THEN keyOut.calls[1].n = 2 /\ keyOut.calls[1].key_args = keyIn.key_args
           ELSE keyOut.calls[1].n = 1
        /\ keyOut.object_key = Invoke(keyIn.key.val, keyOut.calls[1])

\* C7 amended: with a callable strategy the callable is invoked exactly once,
\* with file_name first and key_args second only when key_args is truthy
\* (present, not None, and not an empty or zero value), with file_name alone
\* otherwise, and its result is returned unmodified.
C7_CallableStrategy ==
    (KeyCalled /\ keyIn.key.type = "function") =>
        /\ keyOut.kind = "return"
        /\ Len(keyOut.calls) = 1
        /\ keyOut.calls[1].file_name = keyIn.file_name
        /\ IF keyIn.key_args \notin
                {PyMissing, PyNone, PyStr(""), [type |-> "int", val |-> "0"],
                 [type |-> "list", val |-> "[]"], [type |-> "dict", val |-> "{}"]}
           THEN keyOut.calls[1].n = 2 /\ keyOut.calls[1].key_args = keyIn.key_args
           ELSE keyOut.calls[1].n = 1
        /\ keyOut.object_key = Invoke(keyIn.key.val, keyOut.calls[1])

\* C7 witness: a callable whose result depends on its arguments was called
\* with an empty-list key_args configured, and received file_name alone.
C7_Witness ==
    /\ KeyCalled /\ keyIn.key = PyFunction("by_args")
    /\ keyIn.key_args = [type |-> "list", val |-> "[]"]
    /\ Len(keyOut.calls) = 1 /\ keyOut.calls[1].n = 1
    /\ keyOut.object_key = "plain/" \o keyIn.file_name

\* s = n times the character ch.
AllChars(s, ch) == \A i \in 1..Len(s) : CharAt(s, i) = ch

\* core is s without its leading and trailing "/": s is slashes, core,
\* slashes, and core neither starts nor ends with "/".
IsStripped(core, s) ==
    \E i \in 1..(Len(s) + 1) : \E j \in (i - 1)..Len(s) :
        /\ core = SubSeq(s, i, j)
        /\ AllChars(SubSeq(s, 1, i - 1), "/")
        /\ AllChars(SubSeq(s, j + 1, Len(s)), "/")
        /\ (core # "" => CharAt(core, 1) # "/" /\ CharAt(core, Len(core)) # "/")

\* C8: with a string strategy, "/" gives file_name unchanged; any other
\* string gives the strategy without its leading and trailing "/", then "/",
\* then file_name (so a strategy that strips to nothing gives "/" and the
\* file name); file_name is never altered.
C8_StringStrategy ==
    (KeyCalled /\ keyIn.key.type = "str") =>
        /\ keyOut.kind = "return" /\ keyOut.calls = <<>>
        /\ IF keyIn.key.val = "/" THEN keyOut.object_key = keyIn.file_name
           ELSE \E core \in StrategyStrings :
                    /\ IsStripped(core, keyIn.key.val)
                    /\ keyOut.object_key = core \o "/" \o keyIn.file_name
        /\ (keyIn.key.val \in {"", "//"} => keyOut.object_key = "/" \o keyIn.file_name)
        /\ (keyIn.key.val \in {"u/", "/u"} => keyOut.object_key = "u/" \o keyIn.file_name)

\* C8 witness: a strategy with "/" on both sides and a file name holding a
\* "/" of its own.
C8_Witness ==
    /\ KeyCalled /\ keyIn.key = PyStr("/u/") /\ keyIn.file_name = "/a"
    /\ keyOut.object_key = "u//a"

(***************************************************************************)
(* AWS Signature V4 key derivation.  Bytes are symbolic: the UTF-8         *)
(* encoding of a string is the string tagged as bytes, and an HMAC-SHA256  *)
(* digest is the term of its key and message, a fixed function of both.    *)
(***************************************************************************)
\* s.encode("utf-8")
encode_utf8(s) == <<"utf-8", s>>

\* hmac.new(key, msg, hashlib.sha256).digest()
hmac_sha256_digest(key, msg) == <<"hmac-sha256", key, msg>>

\* sign(key, message)
sign(key, message) == hmac_sha256_digest(key, encode_utf8(message))

\* n in decimal, zero-padded on the left to at least width characters.
RECURSIVE ZeroPad(_, _)
ZeroPad(str, width) == IF Len(str) < width THEN ZeroPad("0" \o str, width) ELSE str

\* signing_date.strftime("%Y%m%d") for a date <<year, month, day>>.
strftime_Ymd(date) ==
    ZeroPad(ToString(date[1]), 4) \o ZeroPad(ToString(date[2]), 2)
        \o ZeroPad(ToString(date[3]), 2)

\* The region and the service keyed in the opposite order.
get_aws_v4_signing_key_swapped(key, signing_date, region, service) ==
    LET datestamp == strftime_Ymd(signing_date)
        date_key == sign(encode_utf8("AWS4" \o key), datestamp)
        k_service == sign(date_key, service)
        k_region == sign(k_service, region)
        k_signing == sign(k_region, "aws4_request")
    IN  k_signing

\* get_aws_v4_signing_key(key, signing_date, region, service)
get_aws_v4_signing_key(key, signing_date, region, service) ==
    LET datestamp == strftime_Ymd(signing_date)
        date_key == sign(encode_utf8("AWS4" \o key), datestamp)
        k_region == sign(date_key, region)
        k_service == sign(k_region, service)
        k_signing == sign(k_service, "aws4_request")
    IN  k_signing

SecretKeys == {"secret" \o ToString(i) : i \in 1..NumSecrets}
\* Two of the dates differ only in where the month ends and the day begins.
SigningDates == {<<2015, 8, 30>>, <<2024, 1, 15>>, <<2024, 11, 5>>, <<2024, 12, 31>>}
Regions == {"us-east-1", "s3"}
Services == {"s3", "sts"}

SignInit ==
    /\ settings = UnsetSettings /\ destinations = NoDestinations
    /\ ConfigIdle /\ PresignIdle /\ KeyIdle /\ SignIdle

CallGetSigningKey(key, signing_date, region, service) ==
    /\ signPrev' = signLast
    /\ signLast' = [called |-> TRUE, key |-> key, signing_date |-> signing_date,
                    region |-> region, service |-> service,
                    k_signing |-> get_aws_v4_signing_key(key, signing_date, region, service)]
    /\ UNCHANGED <<configVars, presignVars, keyVars>>

SignNext ==
    \E key \in SecretKeys, signing_date \in SigningDates, region \in Regions,
       service \in Services : CallGetSigningKey(key, signing_date, region, service)

SignSpec == SignInit /\ [][SignNext]_vars

(***************************************************************************)
(* Properties of the signing-key derivation.                               *)
(***************************************************************************)
Digit(n) == CHOOSE c \in {"0", "1", "2", "3", "4", "5", "6", "7", "8", "9"} : c = ToString(n)

\* The date as eight digits: YYYYMMDD.
YYYYMMDD(date) ==
    Digit(date[1] \div 1000) \o Digit((date[1] \div 100) % 10)
        \o Digit((date[1] \div 10) % 10) \o Digit(date[1] % 10)
        \o Digit(date[2] \div 10) \o Digit(date[2] % 10)
        \o Digit(date[3] \div 10) \o Digit(date[3] % 10)

SameSignInputs(a, b) ==
    /\ a.key = b.key /\ a.signing_date = b.signing_date
    /\ a.region = b.region /\ a.service = b.service

\* C10: the signing key is the four-step chain dateKey = sign("AWS4" + key,
\* YYYYMMDD), regionKey = sign(dateKey, region), serviceKey = sign(regionKey,
\* service), signingKey = sign(serviceKey, "aws4_request"), each step keyed by
\* the output of the step before; two calls with the same arguments give the
\* same key.
C10_SigningKeyChain ==
    /\ signLast.called =>
        LET dateKey == sign(encode_utf8("AWS4" \o signLast.key), YYYYMMDD(signLast.signing_date))
            regionKey == sign(dateKey, signLast.region)
            serviceKey == sign(regionKey, signLast.service)
            signingKey == sign(serviceKey, "aws4_request")
        IN  signLast.k_signing = signingKey
    /\ (signPrev.called /\ SameSignInputs(signPrev, signLast)) =>
            signPrev.k_signing = signLast.k_signing

\* C10 witness: two successive calls with the same arguments, the region and
\* the service differing, on a date whose month and day need padding.
C10_Witness ==
    /\ signPrev.called /\ signLast.called /\ SameSignInputs(signPrev, signLast)
    /\ signLast.region # signLast.service
    /\ signLast.signing_date = <<2015, 8, 30>>
    /\ signLast.k_signing[2][2][2][3] = <<"utf-8", "20150830">>

(***************************************************************************)
(* get_presigned_url: destination lookup, region and endpoint resolution,  *)
(* choice of the explicit key pair, client construction and presigning.    *)
(***************************************************************************)
DefaultExpiresIn == 3600
MethodNames == {"get_object"}
ObjectKeys == {"u/a.png"}

\* dict.get(id) on the destinations mapping: the record, or None (found = FALSE).
destinations_get(dests, id) ==
    IF id \in DOMAIN dests.map
    THEN [found |-> TRUE, rec |-> dests.map[id]]
    ELSE [found |-> FALSE, rec |-> [bucket |-> Absent, region |-> Absent, endpoint |-> Absent]]

\* The primary fallback kept in FOREIGN mode.
resolve_location_primary(dest, field, is_oracle) ==
    dict_get(dest, field,
             getattr_settings(IF field = "region" THEN "AWS_S3_REGION_NAME"
                              ELSE "AWS_S3_ENDPOINT_URL"))

\* dest.get(field, <fallback setting of the mode>) for region and endpoint:
\* the primary fallback is computed first and replaced when is_oracle is false.
resolve_location(dest, field, is_oracle) ==
    LET primary == dict_get(dest, field,
                       getattr_settings(IF field = "region" THEN "AWS_S3_REGION_NAME"
                                        ELSE "AWS_S3_ENDPOINT_URL"))
        original == dict_get(dest, field,
                       getattr_settings(IF field = "region" THEN "ORIGINAL_AWS_S3_REGION_NAME"
                                        ELSE "ORIGINAL_AWS_S3_ENDPOINT_URL"))
    IN  IF is_oracle THEN primary ELSE original

NoAuthentication == [aws_access_key_id |-> Absent, aws_secret_access_key |-> Absent]

\* The primary pair kept in FOREIGN mode when the "original" pair is incomplete.
authentication_fallback(is_oracle) ==
    LET p_id == getattr_settings("AWS_ACCESS_KEY_ID")
        p_secret == getattr_settings("AWS_SECRET_ACCESS_KEY")
        o_id == getattr_settings("ORIGINAL_AWS_ACCESS_KEY_ID")
        o_secret == getattr_settings("ORIGINAL_SECRET_ACCESS_KEY")
    IN  IF ~is_oracle /\ Truthy(o_id) /\ Truthy(o_secret)
        THEN [aws_access_key_id |-> o_id, aws_secret_access_key |-> o_secret]
        ELSE IF Truthy(p_id) /\ Truthy(p_secret)
        THEN [aws_access_key_id |-> p_id, aws_secret_access_key |-> p_secret]
        ELSE NoAuthentication

\* The keyword arguments **authentication handed to boto3.client.
authentication(is_oracle) ==
    LET aws_access_key_id ==
            IF is_oracle THEN getattr_settings("AWS_ACCESS_KEY_ID")
            ELSE getattr_settings("ORIGINAL_AWS_ACCESS_KEY_ID")
        aws_secret_access_key ==
            IF is_oracle THEN getattr_settings("AWS_SECRET_ACCESS_KEY")
            ELSE getattr_settings("ORIGINAL_SECRET_ACCESS_KEY")
    IN  IF Truthy(aws_access_key_id) /\ Truthy(aws_secret_access_key)
        THEN [aws_access_key_id |-> aws_access_key_id,
              aws_secret_access_key |-> aws_secret_access_key]
        ELSE NoAuthentication

PresignRaised(dest, is_oracle, error) ==
    [NoPresignCall EXCEPT !.kind = "raise", !.error = error, !.dest = dest,
                          !.is_oracle = is_oracle]

\* get_presigned_url(dest, key, expires_in, method_name, is_oracle)
get_presigned_url(dest, key, expires_in, method_name, is_oracle) ==
    LET dests == get_s3direct_destinations
        found == destinations_get(dests, dest)
        auth == authentication(is_oracle)
    IN  IF ~dests.set THEN PresignRaised(dest, is_oracle, "AttributeError")
        ELSE IF ~found.found THEN PresignRaised(dest, is_oracle, "AttributeError")
        ELSE [kind |-> "return", error |-> "", dest |-> dest, is_oracle |-> is_oracle,
              client |-> TRUE,
              endpoint_url |-> resolve_location(found.rec, "endpoint", is_oracle),
              region_name |-> resolve_location(found.rec, "region", is_oracle),
              signature_version |-> "s3v4",
              aws_access_key_id |-> auth.aws_access_key_id,
              aws_secret_access_key |-> auth.aws_secret_access_key,
              presigned |-> TRUE, method_name |-> method_name,
              Bucket |-> dict_get(found.rec, "bucket",
                                  getattr_settings("AWS_STORAGE_BUCKET_NAME")),
              Key |-> key, ExpiresIn |-> expires_in]

\* The key settings of the presigning scenarios: missing, empty, or set.
PresignKeyValues(name) == {Absent, "", name \o "#1"}

PresignSettings ==
    {[AWS_ACCESS_KEY_ID |-> a, AWS_SECRET_ACCESS_KEY |-> b,
      ORIGINAL_AWS_ACCESS_KEY_ID |-> c, ORIGINAL_SECRET_ACCESS_KEY |-> d,
      AWS_S3_REGION_NAME |-> e, AWS_S3_ENDPOINT_URL |-> f,
      ORIGINAL_AWS_S3_REGION_NAME |-> g, ORIGINAL_AWS_S3_ENDPOINT_URL |-> h,
      AWS_STORAGE_BUCKET_NAME |-> i] :
        a \in PresignKeyValues("AWS_ACCESS_KEY_ID"),
        b \in PresignKeyValues("AWS_SECRET_ACCESS_KEY"),
        c \in PresignKeyValues("ORIGINAL_AWS_ACCESS_KEY_ID"),
        d \in PresignKeyValues("ORIGINAL_SECRET_ACCESS_KEY"),
        e \in LocValues("AWS_S3_REGION_NAME"),
        f \in LocValues("AWS_S3_ENDPOINT_URL"),
        g \in LocValues("ORIGINAL_AWS_S3_REGION_NAME"),
        h \in LocValues("ORIGINAL_AWS_S3_ENDPOINT_URL"),
        i \in LocValues("AWS_STORAGE_BUCKET_NAME")}

PresignInit ==
    /\ settings \in PresignSettings
    /\ destinations \in DestinationSettings
    /\ ConfigIdle /\ PresignIdle /\ KeyIdle /\ SignIdle

\* One call per configuration: the function keeps nothing between calls.
CallGetPresignedUrl(dest, key, expires_in, method_name, is_oracle) ==
    /\ presignOut.kind = "nocall"
    /\ presignOut' = get_presigned_url(dest, key, expires_in, method_name, is_oracle)
    /\ UNCHANGED <<configVars, keyVars, signVars>>

PresignNext ==
    \E dest \in RequestIds, key \in ObjectKeys, method_name \in MethodNames,
       is_oracle \in BOOLEAN :
        CallGetPresignedUrl(dest, key, DefaultExpiresIn, method_name, is_oracle)

PresignSpec == PresignInit /\ [][PresignNext]_vars

(***************************************************************************)
(* Properties of get_presigned_url.                                        *)
(***************************************************************************)
PresignCalled == presignOut.kind # "nocall"

\* The value of a setting, None when the setting does not exist.
SettingOrNone(name) == IF settings[name] = Absent THEN None ELSE settings[name]

\* The record configured for the destination of the last call.
RequestedRecord == destinations.map[presignOut.dest]

\* C4: when the requested destination is absent from the destinations
\* mapping, get_presigned_url fails with a ConfigurationError, constructs no
\* provider client and makes no presign call.
C4_MissingDestinationConfigurationError ==
    (PresignCalled /\ destinations.set /\ presignOut.dest \notin DOMAIN destinations.map) =>
        /\ presignOut.kind = "raise"
        /\ presignOut.error = "ConfigurationError"
        /\ presignOut.client = FALSE
        /\ presignOut.presigned = FALSE

\* C5: the region and the endpoint handed to the client are the destination
\* record's own when the record has them, and otherwise the fallback setting
\* of the selected mode only: the primary settings when is_oracle is true, the
\* "original" settings when it is false.  The other mode's settings are never
\* used, populated or not.
C5_RegionEndpointResolution ==
    (PresignCalled /\ presignOut.kind = "return") =>
        /\ presignOut.region_name =
            IF RequestedRecord.region # Absent THEN RequestedRecord.region
            ELSE IF presignOut.is_oracle THEN SettingOrNone("AWS_S3_REGION_NAME")
            ELSE SettingOrNone("ORIGINAL_AWS_S3_REGION_NAME")
        /\ presignOut.endpoint_url =
            IF RequestedRecord.endpoint # Absent THEN RequestedRecord.endpoint
            ELSE IF presignOut.is_oracle THEN SettingOrNone("AWS_S3_ENDPOINT_URL")
            ELSE SettingOrNone("ORIGINAL_AWS_S3_ENDPOINT_URL")
        /\ ~presignOut.is_oracle =>
            /\ presignOut.region_name # "AWS_S3_REGION_NAME#1"
            /\ presignOut.endpoint_url # "AWS_S3_ENDPOINT_URL#1"
        /\ presignOut.is_oracle =>
            /\ presignOut.region_name # "ORIGINAL_AWS_S3_REGION_NAME#1"
            /\ presignOut.endpoint_url # "ORIGINAL_AWS_S3_ENDPOINT_URL#1"

\* C5 witness: FOREIGN mode, a record with neither region nor endpoint, the
\* primary and the "original" settings all populated: the "original" ones
\* reached the client.
C5_Witness ==
    /\ PresignCalled /\ presignOut.kind = "return" /\ ~presignOut.is_oracle
    /\ RequestedRecord.region = Absent /\ RequestedRecord.endpoint = Absent
    /\ settings["AWS_S3_REGION_NAME"] # Absent /\ settings["AWS_S3_ENDPOINT_URL"] # Absent
    /\ presignOut.region_name = "ORIGINAL_AWS_S3_REGION_NAME#1"
    /\ presignOut.endpoint_url = "ORIGINAL_AWS_S3_ENDPOINT_URL#1"

ModeAccessKey == IF presignOut.is_oracle THEN settings["AWS_ACCESS_KEY_ID"]
                 ELSE settings["ORIGINAL_AWS_ACCESS_KEY_ID"]
ModeSecretKey == IF presignOut.is_oracle THEN settings["AWS_SECRET_ACCESS_KEY"]
                 ELSE settings["ORIGINAL_SECRET_ACCESS_KEY"]

\* C6: the client receives an explicit access-key/secret-key pair if and only
\* if the access key and the secret key of the selected mode's settings are
\* both present and non-empty; the pair is that mode's pair; when either is
\* missing no explicit key is attached, neither a single key nor the other
\* mode's keys.
C6_ExplicitKeysOnlyAsPair ==
    (PresignCalled /\ presignOut.kind = "return") =>
        IF ModeAccessKey \notin {Absent, None, ""} /\ ModeSecretKey \notin {Absent, None, ""}
        THEN /\ presignOut.aws_access_key_id = ModeAccessKey
             /\ presignOut.aws_secret_access_key = ModeSecretKey
        ELSE /\ presignOut.aws_access_key_id = Absent
             /\ presignOut.aws_secret_access_key = Absent

\* C6 witness: FOREIGN mode with only one "original" key set while the
\* primary pair is complete: the client was built with no explicit key.
C6_Witness ==
    /\ PresignCalled /\ presignOut.kind = "return" /\ ~presignOut.is_oracle
    /\ settings["ORIGINAL_AWS_ACCESS_KEY_ID"] = "ORIGINAL_AWS_ACCESS_KEY_ID#1"
    /\ settings["ORIGINAL_SECRET_ACCESS_KEY"] \in {Absent, ""}
    /\ settings["AWS_ACCESS_KEY_ID"] = "AWS_ACCESS_KEY_ID#1"
    /\ settings["AWS_SECRET_ACCESS_KEY"] = "AWS_SECRET_ACCESS_KEY#1"
    /\ presignOut.client
    /\ presignOut.aws_access_key_id = Absent /\ presignOut.aws_secret_access_key = Absent

====
